---- MODULE Spec2Model ----
(***************************************************************************)
(* iChef: a Streamlit web app (src/app.py) and a command-line tool         *)
(* (src/main.py) that send an ingredient list and a dietary preference to  *)
(* a hosted LLM and show its answer; the web app can also fill the         *)
(* ingredient list from a photo.                                           *)
(*                                                                         *)
(* Python strings are sequences of characters.  A character is written as  *)
(* a TLA+ string; characters outside ASCII are written by name             *)
(*   CROSS  U+274C, the failure marker                                     *)
(*   SIREN  U+1F6A8, the first character of the empty-input messages       *)
(*   NL     the newline                                                    *)
(*   wu fa bian shi   the four characters of the cannot-identify phrase    *)
(* and the fixed wording of a message is one character-like token MSG_*.   *)
(***************************************************************************)
EXTENDS Integers, Sequences, FiniteSets, TLC

VARIABLES
    session_state,      \* st.session_state of each browser session
    widgets,            \* the values the widgets of each session hold
    cache,              \* the store of @st.cache_data, one per process
    event,              \* what the latest handler of the web app did
    recognition_calls,  \* per session and file name: calls of generate_ingredients_from_image
    llm_calls,          \* per (ingredients_text, preference_text): outbound calls of the web app
    first_result,       \* per (ingredients_text, preference_text): what the first request returned
    upload_run,         \* per session: the file name of the latest upload events, and the recognitions among them
    call,               \* the latest direct application of one of the functions
    cli                 \* the command-line process

vars == <<session_state, widgets, cache, event, recognition_calls, llm_calls,
          first_result, upload_run, call, cli>>

webVars == <<session_state, widgets, cache, event, recognition_calls, llm_calls,
             first_result, upload_run>>

(***************************************************************************)
(* Bounds of the model                                                     *)
(***************************************************************************)
MaxRecognitions == 2    \* recognitions counted per session and file name
MaxCallsPerPair == 2    \* outbound calls counted per argument pair
MaxTextLen == 4         \* longest ingredients_text given to generate directly
MaxResponseLen == 5     \* longest response text given to the recognition directly

(***************************************************************************)
(* Characters and the fixed strings of the program                         *)
(***************************************************************************)
CROSS == "CROSS"
SIREN == "SIREN"
NL == "NL"
None == "None"

CannotIdentify == <<"wu", "fa", "bian", "shi">>

EmptyMessageWeb == <<SIREN, " ", "MSG_EMPTY_WEB">>
EmptyMessageCli == <<SIREN, " ", "MSG_EMPTY_CLI">>

(***************************************************************************)
(* Python's str operations                                                 *)
(***************************************************************************)
IsSpace(c) == c \in {" ", NL}

RECURSIVE LStrip(_)
LStrip(s) == IF s # <<>> /\ IsSpace(Head(s)) THEN LStrip(Tail(s)) ELSE s

RECURSIVE RStrip(_)
RStrip(s) == IF s # <<>> /\ IsSpace(s[Len(s)]) THEN RStrip(SubSeq(s, 1, Len(s) - 1)) ELSE s

strip(s) == RStrip(LStrip(s))

RECURSIVE split(_, _)
split(s, sep) ==
    IF \E i \in 1..Len(s) : s[i] = sep
    THEN LET i == CHOOSE i \in 1..Len(s) : s[i] = sep /\ \A j \in 1..(i - 1) : s[j] # sep
         IN  <<SubSeq(s, 1, i - 1)>> \o split(SubSeq(s, i + 1, Len(s)), sep)
    ELSE <<s>>

startswith(s, prefix) ==
    Len(s) >= Len(prefix) /\ SubSeq(s, 1, Len(prefix)) = prefix

contains(s, sub) ==
    \E i \in 1..(Len(s) - Len(sub) + 1) : SubSeq(s, i, i + Len(sub) - 1) = sub

RECURSIVE join(_, _)
join(sep, items) ==
    IF items = <<>> THEN <<>>
    ELSE IF Len(items) = 1 THEN items[1]
    ELSE items[1] \o sep \o join(sep, Tail(items))

(***************************************************************************)
(* The outbound interface.  A reply of client.models.generate_content is   *)
(*   [kind |-> "text",   text |-> t]   a response whose .text is t         *)
(*   [kind |-> "notext", text |-> <<>>] a response whose .text is None     *)
(*   [kind |-> "raise",  text |-> e]   an exception, str(e) = e            *)
(***************************************************************************)
PyNone == <<"PY_NONE">>     \* the value None where the caller expects a str

NoneHasNoStrip == <<"MSG_NONETYPE_HAS_NO_ATTRIBUTE_STRIP">>

TextReply(t) == [kind |-> "text", text |-> t]
RaiseReply(e) == [kind |-> "raise", text |-> e]
NoTextReply == [kind |-> "notext", text |-> <<>>]

(***************************************************************************)
(* The functions of src/app.py and src/main.py                             *)
(***************************************************************************)
\* A variant of ingredients_of: the entries are not trimmed before the blank
\* ones are dropped.
ingredients_of_untrimmed(ingredients_text) ==
    SelectSeq(split(ingredients_text, ","), LAMBDA i : i # <<>>)

\* [i.strip() for i in ingredients_text.split(',') if i.strip()]
ingredients_of(ingredients_text) ==
    LET parts == split(ingredients_text, ",")
        stripped == [k \in 1..Len(parts) |-> strip(parts[k])]
    IN  SelectSeq(stripped, LAMBDA i : i # <<>>)

create_recipe_prompt(ingredients, preference) ==
    <<"PROMPT_WEB_HEAD">> \o join(<<",", " ">>, ingredients) \o <<"PROMPT_WEB_MID">>
        \o preference \o <<"PROMPT_WEB_TAIL">>

create_recipe_prompt_cli(ingredients, preference) ==
    <<"PROMPT_CLI_HEAD">> \o join(<<",", " ">>, ingredients) \o <<"PROMPT_CLI_MID">>
        \o preference \o <<"PROMPT_CLI_TAIL">>

WebFailure(e) == <<CROSS, " ", "MSG_CALL_FAILED_WEB">> \o e

CliFailure(e) == <<NL, CROSS, " ", "MSG_CALL_FAILED_CLI">> \o e

RecognitionFailure(e) == <<CROSS, " ", "MSG_RECOGNITION_FAILED">> \o e

\* Lines 89-98 of app.py: the request inside try/except.  raised says whether
\* an exception leaves the function.
try_generate_content(reply) ==
    CASE reply.kind = "text" -> [ret |-> reply.text, raised |-> FALSE]
      [] reply.kind = "notext" -> [ret |-> PyNone, raised |-> FALSE]
      [] OTHER -> [ret |-> WebFailure(reply.text), raised |-> FALSE]

\* Lines 78-88 of main.py.
try_generate_content_cli(reply) ==
    CASE reply.kind = "text" -> [ret |-> reply.text, raised |-> FALSE]
      [] reply.kind = "notext" -> [ret |-> PyNone, raised |-> FALSE]
      [] OTHER -> [ret |-> CliFailure(reply.text), raised |-> FALSE]

\* Lines 83-98 of app.py, after the list is parsed: the value returned and the
\* requests sent to the provider on the way.  t is what the try block gives.
recipe_for(ingredients, preference_text, t) ==
    IF ingredients = <<>>
    THEN [ret |-> EmptyMessageWeb, raised |-> FALSE, requests |-> <<>>]
    ELSE [ret |-> t.ret, raised |-> t.raised,
          requests |-> <<create_recipe_prompt(ingredients, preference_text)>>]

\* The body of generate_recipe_from_ai of the web app.
generate_recipe_from_ai(ingredients_text, preference_text, reply) ==
    recipe_for(ingredients_of(ingredients_text), preference_text,
               try_generate_content(reply))

\* Lines 72-88 of main.py.
recipe_for_cli(ingredients, preference_text, t) ==
    IF ingredients = <<>>
    THEN [ret |-> EmptyMessageCli, raised |-> FALSE, requests |-> <<>>]
    ELSE [ret |-> t.ret, raised |-> t.raised,
          requests |-> <<create_recipe_prompt_cli(ingredients, preference_text)>>]

\* generate_recipe_from_ai of the command-line tool.
generate_recipe_from_ai_cli(ingredients_text, preference_text, reply) ==
    recipe_for_cli(ingredients_of(ingredients_text), preference_text,
                   try_generate_content_cli(reply))

\* A variant of cache_store: a failure string is returned and not stored.
cache_store_successes_only(c, key, r) ==
    [ret |-> r.ret, raised |-> r.raised, requests |-> r.requests,
     cache |-> IF r.raised \/ startswith(r.ret, <<CROSS>>) THEN c ELSE (key :> r.ret) @@ c]

\* @st.cache_data on a miss: r, what the body returned, is stored under key
\* in the store c (an exception stores nothing).
cache_store(c, key, r) ==
    [ret |-> r.ret, raised |-> r.raised, requests |-> r.requests,
     cache |-> IF r.raised THEN c ELSE (key :> r.ret) @@ c]

\* A variant of cached_generate_recipe_from_ai: the decorator is missing.
uncached_generate_recipe_from_ai(c, ingredients_text, preference_text, reply) ==
    generate_recipe_from_ai(ingredients_text, preference_text, reply) @@ [cache |-> c]

\* @st.cache_data: the body runs on a miss, a hit returns the stored value.
cached_generate_recipe_from_ai(c, ingredients_text, preference_text, reply) ==
    IF <<ingredients_text, preference_text>> \in DOMAIN c
    THEN [ret |-> c[<<ingredients_text, preference_text>>], raised |-> FALSE,
          requests |-> <<>>, cache |-> c]
    ELSE cache_store(c, <<ingredients_text, preference_text>>,
                     generate_recipe_from_ai(ingredients_text, preference_text, reply))

\* A variant of recognized_text: the phrase is compared with the whole text.
recognized_text_whole_phrase(ingredients_text) ==
    IF ingredients_text = <<>> \/ ingredients_text = CannotIdentify
    THEN <<>>
    ELSE ingredients_text

\* Lines 117-122 of app.py: what becomes of the response text.
recognized_text(ingredients_text) ==
    IF ingredients_text = <<>> \/ contains(ingredients_text, CannotIdentify)
    THEN <<>>
    ELSE ingredients_text

\* generate_ingredients_from_image: one request, then the response text.
generate_ingredients_from_image(reply) ==
    CASE reply.kind = "raise" -> [ret |-> RecognitionFailure(reply.text), raised |-> FALSE]
      [] reply.kind = "notext" -> [ret |-> RecognitionFailure(NoneHasNoStrip), raised |-> FALSE]
      [] OTHER -> [ret |-> recognized_text(strip(reply.text)), raised |-> FALSE]

(***************************************************************************)
(* main_app, the render function of the web app.  Streamlit runs it from   *)
(* the top on every interaction of a session.  ss is the session's         *)
(* st.session_state, w its widget values, clicked whether the button       *)
(* started this run, c the cache, and oc what the outside world does       *)
(* during the run:                                                         *)
(*   oc.decode  "ok" or "fail": Image.open returns or raises               *)
(*   oc.vision  the reply to the recognition request                       *)
(*   oc.llm     the reply to the recipe request                            *)
(* A section's stop says how it ends: "continue" (the run goes on),        *)
(* "rerun" (st.rerun()), "exception" (uncaught), "done".                   *)
(***************************************************************************)
\* A variant of fill_ingredients: a failure clears the field too.
fill_ingredients_cleared_on_failure(named, identified_ingredients) ==
    IF identified_ingredients # <<>> /\ ~startswith(identified_ingredients, <<CROSS>>)
    THEN [named EXCEPT !.ingredients_text = identified_ingredients]
    ELSE [named EXCEPT !.ingredients_text = <<>>]

\* Lines 168-175: where the recognition result goes.
fill_ingredients(named, identified_ingredients) ==
    IF identified_ingredients # <<>> /\ ~startswith(identified_ingredients, <<CROSS>>)
    THEN [named EXCEPT !.ingredients_text = identified_ingredients]
    ELSE IF startswith(identified_ingredients, <<CROSS>>)
    THEN named
    ELSE [named EXCEPT !.ingredients_text = <<>>]

\* A variant of process_upload: the name is kept only when the recognition
\* gave no failure string.
process_upload_named_on_success(named, decode, rec) ==
    IF decode = "fail"
    THEN [ss |-> named, recognized |-> 0, result |-> <<>>, stop |-> "exception"]
    ELSE [ss |-> IF startswith(rec.ret, <<CROSS>>)
                 THEN [named EXCEPT !.last_upload_name = None]
                 ELSE fill_ingredients(named, rec.ret),
          recognized |-> 1, result |-> rec.ret, stop |-> "rerun"]

\* Lines 162-178: a new file, its name already written to the session state.
process_upload(named, decode, rec) ==
    IF decode = "fail"
    THEN [ss |-> named, recognized |-> 0, result |-> <<>>, stop |-> "exception"]
    ELSE IF rec.raised
    THEN [ss |-> named, recognized |-> 1, result |-> <<>>, stop |-> "exception"]
    ELSE [ss |-> fill_ingredients(named, rec.ret), recognized |-> 1,
          result |-> rec.ret, stop |-> "rerun"]

\* A variant of upload_section: the name is written after the image is decoded.
upload_section_named_after_decode(ss, uploaded_file, oc) ==
    IF uploaded_file = None
    THEN [ss |-> ss, recognized |-> 0, result |-> <<>>, stop |-> "continue"]
    ELSE IF ss.last_upload_name # uploaded_file
    THEN IF oc.decode = "fail"
         THEN [ss |-> ss, recognized |-> 0, result |-> <<>>, stop |-> "exception"]
         ELSE process_upload([ss EXCEPT !.last_upload_name = uploaded_file], oc.decode,
                             generate_ingredients_from_image(oc.vision))
    ELSE [ss |-> ss, recognized |-> 0, result |-> <<>>,
          stop |-> IF oc.decode = "fail" THEN "exception" ELSE "continue"]

\* A variant of upload_section: every file seen so far is remembered, here by
\* never processing a second name.
upload_section_first_file_only(ss, uploaded_file, oc) ==
    IF uploaded_file = None
    THEN [ss |-> ss, recognized |-> 0, result |-> <<>>, stop |-> "continue"]
    ELSE IF ss.last_upload_name = None
    THEN process_upload([ss EXCEPT !.last_upload_name = uploaded_file], oc.decode,
                        generate_ingredients_from_image(oc.vision))
    ELSE [ss |-> ss, recognized |-> 0, result |-> <<>>,
          stop |-> IF oc.decode = "fail" THEN "exception" ELSE "continue"]

\* Lines 156-182: the upload section.
upload_section(ss, uploaded_file, oc) ==
    IF uploaded_file = None
    THEN [ss |-> ss, recognized |-> 0, result |-> <<>>, stop |-> "continue"]
    ELSE IF ss.last_upload_name # uploaded_file
    THEN process_upload([ss EXCEPT !.last_upload_name = uploaded_file], oc.decode,
                        generate_ingredients_from_image(oc.vision))
    ELSE [ss |-> ss, recognized |-> 0, result |-> <<>>,
          stop |-> IF oc.decode = "fail" THEN "exception" ELSE "continue"]

\* Lines 218-221: the result goes to the session state.
store_recipe(ss, r) ==
    [ss |-> IF r.raised THEN ss ELSE [ss EXCEPT !.recipe_output = r.ret],
     cache |-> r.cache, generated |-> TRUE, requests |-> r.requests,
     stop |-> IF r.raised THEN "exception" ELSE "done"]

\* Lines 207-221: the button.
button_section(ss, preference_input, clicked, c, oc) ==
    IF ~clicked \/ ss.ingredients_text = <<>>
    THEN [ss |-> ss, cache |-> c, generated |-> FALSE, requests |-> <<>>, stop |-> "done"]
    ELSE store_recipe(ss, cached_generate_recipe_from_ai(c, ss.ingredients_text,
                                                         preference_input, oc.llm))

\* A run that the upload section ended, or the rest of the run after it.
after_upload(up, w, clicked, c, oc) ==
    IF up.stop # "continue"
    THEN [ss |-> up.ss, cache |-> c, generated |-> FALSE, requests |-> <<>>,
          stop |-> up.stop, recognized |-> up.recognized, result |-> up.result]
    ELSE button_section(up.ss, w.preference_text, clicked, c, oc)
            @@ [recognized |-> 0, result |-> <<>>]

\* One run of the script.
main_app(ss, w, clicked, c, oc) ==
    after_upload(upload_section(ss, w.uploaded_file, oc), w, clicked, c, oc)

\* What an interaction did, from its run and the run st.rerun() started.
after_rerun(first, second) ==
    [ss |-> second.ss, cache |-> second.cache,
     recognized |-> first.recognized + second.recognized, result |-> first.result,
     aborted |-> second.stop = "exception", forced_rerun |-> TRUE,
     generated |-> second.generated, requests |-> second.requests]

\* What an interaction did, from its first run: when that run ends in
\* st.rerun(), Streamlit starts the script again at once (same widget values,
\* the button no longer clicked, the same file decoding as before).
after_run(first, w, oc) ==
    IF first.stop # "rerun"
    THEN [ss |-> first.ss, cache |-> first.cache, recognized |-> first.recognized,
          result |-> first.result, aborted |-> first.stop = "exception",
          forced_rerun |-> FALSE, generated |-> first.generated,
          requests |-> first.requests]
    ELSE after_rerun(first, main_app(first.ss, w, FALSE, first.cache,
                                     [oc EXCEPT !.decode = "ok"]))

\* One interaction of a session.
handle(ss, w, clicked, c, oc) ==
    after_run(main_app(ss, w, clicked, c, oc), w, oc)

(***************************************************************************)
(* The web process: its sessions and what their users do                   *)
(***************************************************************************)
Sessions == {"s1", "s2"}

FileNames == {"A.jpg", "B.jpg"}

NoEvent ==
    [session |-> "none", op |-> "none", recognized |-> 0, result |-> <<>>,
     aborted |-> FALSE, forced_rerun |-> FALSE, generated |-> FALSE, outbound |-> 0]

NoReply == [kind |-> "none", text |-> <<>>]

\* No function is being applied directly.
NoCall == [fn |-> "none", args |-> <<>>, reply |-> NoReply, ret |-> <<>>,
           raised |-> FALSE, requests |-> <<>>, done |-> FALSE]

\* No command-line process runs.
NoCli == [pc |-> "off", printed |-> <<>>, requests |-> <<>>]

\* Lines 140-145, and the widgets as a new session shows them.
InitWeb ==
    /\ session_state = [s \in Sessions |->
                           [ingredients_text |-> <<>>, recipe_output |-> <<>>,
                            last_upload_name |-> None]]
    /\ widgets = [s \in Sessions |-> [uploaded_file |-> None, preference_text |-> <<>>]]
    /\ cache = <<>>
    /\ event = NoEvent
    /\ recognition_calls = [s \in Sessions |-> [f \in FileNames |-> 0]]
    /\ llm_calls = <<>>
    /\ first_result = <<>>
    /\ upload_run = [s \in Sessions |-> [name |-> None, recognitions |-> 0]]

Init ==
    /\ InitWeb
    /\ call = NoCall
    /\ cli = NoCli

CallsFor(key) == IF key \in DOMAIN llm_calls THEN llm_calls[key] ELSE 0

\* The bookkeeping of one generate request of the web process.
CountRequests(key, generated, raised, ret, n) ==
    /\ CallsFor(key) + n <= MaxCallsPerPair
    /\ llm_calls' = IF n > 0 THEN (key :> (CallsFor(key) + n)) @@ llm_calls ELSE llm_calls
    /\ first_result' = IF generated /\ ~raised /\ key \notin DOMAIN first_result
                       THEN (key :> ret) @@ first_result
                       ELSE first_result

\* The interaction op of session s ran as h: the state it leaves.  w1 are the
\* widget values and key the arguments a generate request of this run has.
Commit(s, op, w1, key, h) ==
    /\ h.recognized > 0 =>
          recognition_calls[s][w1.uploaded_file] + h.recognized <= MaxRecognitions
    /\ session_state' = [session_state EXCEPT ![s] = h.ss]
    /\ widgets' = [widgets EXCEPT ![s] = w1]
    /\ cache' = h.cache
    /\ event' = [session |-> s, op |-> op, recognized |-> h.recognized,
                 result |-> h.result, aborted |-> h.aborted,
                 forced_rerun |-> h.forced_rerun, generated |-> h.generated,
                 outbound |-> Len(h.requests)]
    /\ recognition_calls' =
          IF h.recognized > 0
          THEN [recognition_calls EXCEPT ![s][w1.uploaded_file] = @ + h.recognized]
          ELSE recognition_calls
    /\ CountRequests(key, h.generated, h.generated /\ h.aborted,
                     h.ss.recipe_output, Len(h.requests))
    /\ upload_run' =
          IF w1.uploaded_file = None THEN upload_run
          ELSE IF upload_run[s].name = w1.uploaded_file
          THEN [upload_run EXCEPT ![s].recognitions = @ + h.recognized]
          ELSE [upload_run EXCEPT ![s] = [name |-> w1.uploaded_file,
                                          recognitions |-> h.recognized]]
    /\ UNCHANGED <<call, cli>>

\* Session s's user does op: ss0 and w1 are the session state and the widget
\* values the interaction leaves for the run it starts.
Interact(s, op, ss0, w1, clicked, oc) ==
    Commit(s, op, w1, <<ss0.ingredients_text, w1.preference_text>>,
           handle(ss0, w1, clicked, cache, oc))

UploadFile(s, f, oc) ==
    Interact(s, "upload", session_state[s],
             [widgets[s] EXCEPT !.uploaded_file = f], FALSE, oc)

RemoveFile(s, oc) ==
    /\ widgets[s].uploaded_file # None
    /\ Interact(s, "remove", session_state[s],
                [widgets[s] EXCEPT !.uploaded_file = None], FALSE, oc)

EditIngredients(s, text, oc) ==
    /\ text # session_state[s].ingredients_text
    /\ Interact(s, "edit_ingredients",
                [session_state[s] EXCEPT !.ingredients_text = text],
                widgets[s], FALSE, oc)

EditPreference(s, preference, oc) ==
    /\ preference # widgets[s].preference_text
    /\ Interact(s, "edit_preference", session_state[s],
                [widgets[s] EXCEPT !.preference_text = preference], FALSE, oc)

ClickGenerate(s, oc) ==
    Interact(s, "click", session_state[s], widgets[s], TRUE, oc)

Rerender(s, oc) ==
    Interact(s, "rerender", session_state[s], widgets[s], FALSE, oc)

\* What the outside world does during one interaction: o gives the sets the
\* decode outcome and the two replies are drawn from.  A reply nobody asks
\* for is not drawn.
Unasked == [kind |-> "text", text |-> <<>>]

\* Everything the user of session s can do, with the inputs drawn from the
\* given sets.
WebStep(s, files, texts, preferences, o) ==
    \E decode \in o.decode :
        \/ \E f \in files, vision \in o.vision :
              UploadFile(s, f, [decode |-> decode, vision |-> vision, llm |-> Unasked])
        \/ /\ decode = "ok"
           /\ RemoveFile(s, [decode |-> decode, vision |-> Unasked, llm |-> Unasked])
        \/ \E text \in texts :
              EditIngredients(s, text, [decode |-> decode, vision |-> Unasked, llm |-> Unasked])
        \/ \E preference \in preferences :
              EditPreference(s, preference, [decode |-> decode, vision |-> Unasked, llm |-> Unasked])
        \/ \E llm \in o.llm :
              ClickGenerate(s, [decode |-> decode, vision |-> Unasked, llm |-> llm])
        \/ Rerender(s, [decode |-> decode, vision |-> Unasked, llm |-> Unasked])

(***************************************************************************)
(* Spec: one web process serving two sessions.                             *)
(***************************************************************************)
SharedOutcomes ==
    [decode |-> {"ok"},
     vision |-> {TextReply(<<" ", "a">>), RaiseReply(<<"e">>)},
     llm |-> {TextReply(<<"R">>), RaiseReply(<<"e">>)}]

Next ==
    \E s \in Sessions :
        WebStep(s, {"A.jpg"}, {<<>>, <<"a">>}, {<<>>, <<"p">>}, SharedOutcomes)

Spec == Init /\ [][Next]_vars

(***************************************************************************)
(* SpecSession: one session, two files, every outcome of an upload.        *)
(***************************************************************************)
SessionOutcomes ==
    [decode |-> {"ok", "fail"},
     vision |-> {TextReply(<<" ", "b">>), TextReply(<<" ">>), RaiseReply(<<"e">>)},
     llm |-> {TextReply(<<"R">>)}]

NextSession ==
    WebStep("s1", FileNames, {<<>>, <<"a">>}, {<<>>, <<"p">>}, SessionOutcomes)

SpecSession == Init /\ [][NextSession]_vars

(***************************************************************************)
(* SpecGenerate: generate_recipe_from_ai of either file applied to every   *)
(* short ingredients_text, and the command-line tool run on every short    *)
(* input.  A behaviour applies one function to one pair of arguments, any  *)
(* number of times, or runs the tool any number of times.                  *)
(***************************************************************************)
RECURSIVE Strings(_, _)
Strings(alphabet, n) ==
    IF n = 0 THEN {<<>>}
    ELSE Strings(alphabet, n - 1) \cup [1..n -> alphabet]

IngredientTexts == Strings({",", " ", "a"}, MaxTextLen)

PreferenceTexts == {<<>>, <<"p">>}

RecipeReplies == {TextReply(<<"R">>), RaiseReply(<<"e">>), RaiseReply(<<>>), NoTextReply}

Pending(fn, args) == [NoCall EXCEPT !.fn = fn, !.args = args]

InitGenerate ==
    /\ InitWeb
    /\ \/ /\ call \in {Pending(fn, <<text, preference>>) :
                          fn \in {"generate_web", "generate_cli"},
                          text \in IngredientTexts, preference \in PreferenceTexts}
          /\ cli = NoCli
       \/ /\ call = NoCall
          /\ cli = [NoCli EXCEPT !.pc = "start"]

\* The application returned r; reply is what the provider did if it was asked.
Returned(reply, r) ==
    call' = [call EXCEPT !.reply = IF r.requests # <<>> THEN reply ELSE NoReply,
                         !.ret = r.ret, !.raised = r.raised,
                         !.requests = r.requests, !.done = TRUE]

\* The web process applies its (cached) generate_recipe_from_ai to call.args.
WebReturned(reply, r) ==
    /\ Returned(reply, r)
    /\ cache' = r.cache
    /\ CountRequests(call.args, TRUE, r.raised, r.ret, Len(r.requests))
    /\ UNCHANGED <<session_state, widgets, event, recognition_calls, upload_run, cli>>

ApplyGenerateWeb(reply) ==
    /\ call.fn = "generate_web"
    /\ WebReturned(reply, cached_generate_recipe_from_ai(cache, call.args[1],
                                                         call.args[2], reply))

ApplyGenerateCli(reply) ==
    /\ call.fn = "generate_cli"
    /\ Returned(reply, generate_recipe_from_ai_cli(call.args[1], call.args[2], reply))
    /\ UNCHANGED <<webVars, cli>>

InvalidInput == <<NL, CROSS, " ", "MSG_INVALID_INPUT">>

\* Lines 108-121 of main.py, the two inputs read and stripped.
main_body(ingredients_input, preference_input, reply) ==
    IF ingredients_input = <<>>
    THEN [ret |-> InvalidInput, raised |-> FALSE, requests |-> <<>>]
    ELSE generate_recipe_from_ai_cli(ingredients_input, preference_input, reply)

\* main() of main.py: line1 and line2 are what the user types.
main(line1, line2, reply) == main_body(strip(line1), strip(line2), reply)

Exited(r) ==
    cli' = [pc |-> "exited", printed |-> r.ret, requests |-> r.requests]

\* One run of the command-line tool; it can be started again.
RunCli(line1, line2, reply) ==
    /\ cli.pc # "off"
    /\ Exited(main(line1, line2, reply))
    /\ UNCHANGED <<webVars, call>>

NextGenerate ==
    \/ \E reply \in RecipeReplies : ApplyGenerateWeb(reply)
    \/ \E reply \in RecipeReplies : ApplyGenerateCli(reply)
    \/ \E line1 \in IngredientTexts, line2 \in PreferenceTexts, reply \in RecipeReplies :
          RunCli(line1, line2, reply)

SpecGenerate == InitGenerate /\ [][NextGenerate]_vars

(***************************************************************************)
(* SpecRecognize: generate_ingredients_from_image on every short response. *)
(***************************************************************************)
ResponseTexts == Strings({" ", "a"} \cup {CannotIdentify[i] : i \in 1..4}, MaxResponseLen)

VisionReplies ==
    {TextReply(t) : t \in ResponseTexts} \cup {RaiseReply(<<"e">>), RaiseReply(<<>>), NoTextReply}

InitRecognize ==
    /\ InitWeb
    /\ call \in {[Pending("recognize", <<>>) EXCEPT !.reply = reply] : reply \in VisionReplies}
    /\ cli = NoCli

ApplyRecognize ==
    /\ call.fn = "recognize"
    /\ ~call.done
    /\ call' = [call EXCEPT !.ret = generate_ingredients_from_image(call.reply).ret,
                            !.raised = generate_ingredients_from_image(call.reply).raised,
                            !.requests = <<"RECOGNITION_REQUEST">>,
                            !.done = TRUE]
    /\ UNCHANGED <<webVars, cli>>

NextRecognize == ApplyRecognize

SpecRecognize == InitRecognize /\ [][NextRecognize]_vars

(***************************************************************************)
(* The properties                                                          *)
(***************************************************************************)
Marked(text) == text # <<>> /\ text[1] = CROSS

\* Every character of text is a comma or white space: the texts whose
\* comma-separated entries are all blank.
OnlyCommasAndSpaces(text) == \A i \in 1..Len(text) : text[i] = "," \/ IsSpace(text[i])

AllSpaces(text) == \A i \in 1..Len(text) : IsSpace(text[i])

\* trimmed is text without its leading and trailing white space.
IsTrimOf(trimmed, text) ==
    /\ trimmed # <<>> => ~IsSpace(trimmed[1]) /\ ~IsSpace(trimmed[Len(trimmed)])
    /\ \E i \in 0..Len(text) :
          /\ i + Len(trimmed) <= Len(text)
          /\ SubSeq(text, i + 1, i + Len(trimmed)) = trimmed
          /\ AllSpaces(SubSeq(text, 1, i))
          /\ AllSpaces(SubSeq(text, i + Len(trimmed) + 1, Len(text)))

EmptyMessageOf(fn) == IF fn = "generate_web" THEN EmptyMessageWeb ELSE EmptyMessageCli

GenerateReturned == call.done /\ call.fn \in {"generate_web", "generate_cli"}

\* C1: on both surfaces generate sends a request to the provider only when
\* the ingredients text has a non-blank entry; a text whose entries are all
\* blank gets the surface's fixed message and no request, also when the same
\* request was made before.
C1_EmptyListMakesNoCall ==
    GenerateReturned =>
        /\ call.requests # <<>> => ~OnlyCommasAndSpaces(call.args[1])
        /\ OnlyCommasAndSpaces(call.args[1]) =>
              /\ call.ret = EmptyMessageOf(call.fn)
              /\ call.requests = <<>>
              /\ CallsFor(call.args) = 0

C1_Witness ==
    /\ call.done
    /\ call.fn = "generate_web"
    /\ call.args[1] = <<",", ",", " ", ",">>
    /\ call.args \in DOMAIN cache
    /\ call.ret = EmptyMessageWeb
    /\ call.requests = <<>>

\* The session whose interaction the latest event is, and the arguments a
\* generate request of that session has.
Actor == event.session

KeyOf(s) == <<session_state[s].ingredients_text, widgets[s].preference_text>>

\* C2: while the upload events of a session show the same file name, also
\* with the upload control emptied in between, the recognition is invoked at
\* most once, whatever it returned.
C2_SameFileRecognizedOnce ==
    \A s \in Sessions : upload_run[s].recognitions <= 1

C2_Witness ==
    /\ event.op = "rerender"
    /\ event.recognized = 0
    /\ widgets["s1"].uploaded_file = "A.jpg"
    /\ upload_run["s1"] = [name |-> "A.jpg", recognitions |-> 1]
    /\ session_state["s1"].ingredients_text = <<"a">>

\* C3, as claimed: when the provider's call raises, generate does not raise
\* and returns a string whose first character is the failure marker and which
\* ends with the error's description, on the web and on the command line.
C3_FailureStartsWithMarker ==
    (GenerateReturned /\ call.reply.kind = "raise") =>
        /\ ~call.raised
        /\ Marked(call.ret)
        /\ Len(call.ret) >= Len(call.reply.text)
        /\ SubSeq(call.ret, Len(call.ret) - Len(call.reply.text) + 1, Len(call.ret))
              = call.reply.text

\* C4: the web process sends at most one request per pair of arguments, and
\* a generate request returns what the first request with its pair returned.
C4_Memoized ==
    /\ \A key \in DOMAIN llm_calls : llm_calls[key] <= 1
    /\ event.generated =>
          /\ KeyOf(Actor) \in DOMAIN first_result
          /\ session_state[Actor].recipe_output = first_result[KeyOf(Actor)]

C4_Witness ==
    /\ event.generated
    /\ event.outbound = 0
    /\ Actor = "s2"
    /\ KeyOf("s2") = <<<<"a">>, <<"p">>>>
    /\ CallsFor(KeyOf("s2")) = 1
    /\ session_state["s2"].recipe_output = <<"R">>
    /\ session_state["s1"].recipe_output = <<"R">>

\* C5, as claimed: in a session the recognition is invoked at most once per
\* file name.
C5_OncePerFileName ==
    \A s \in Sessions, f \in FileNames : recognition_calls[s][f] <= 1

\* C5, amended: a step changes a session's last_upload_name exactly when it is
\* a step of that session whose uploaded file has another name than the one
\* recorded, and then records that name; the recognition is invoked only in
\* such a step, once, and in every such step whose image decodes.
C5_RecognizedOnNameChange ==
    [][\A s \in Sessions :
          /\ session_state'[s].last_upload_name # session_state[s].last_upload_name
                <=> /\ event'.session = s
                    /\ widgets'[s].uploaded_file # None
                    /\ widgets'[s].uploaded_file # session_state[s].last_upload_name
          /\ widgets'[s].uploaded_file # None
                => session_state'[s].last_upload_name = widgets'[s].uploaded_file
          /\ \A f \in FileNames :
                recognition_calls'[s][f] =
                    IF /\ event'.session = s
                       /\ widgets'[s].uploaded_file = f
                       /\ f # session_state[s].last_upload_name
                       /\ ~event'.aborted
                    THEN recognition_calls[s][f] + 1
                    ELSE recognition_calls[s][f]]_vars

C5_Witness ==
    /\ recognition_calls["s1"]["A.jpg"] = 2
    /\ recognition_calls["s1"]["B.jpg"] = 1
    /\ session_state["s1"].last_upload_name = "A.jpg"
    /\ event.op = "upload"
    /\ event.recognized = 1

RecognizeReturned == call.done /\ call.fn = "recognize"

\* C6: the recognition returns the empty string when the response text is
\* blank or holds the cannot-identify phrase anywhere, the trimmed response
\* text otherwise, and a string starting with the failure marker, without
\* raising, when the request or the reading of its text fails.
C6_RecognitionResult ==
    RecognizeReturned =>
        /\ ~call.raised
        /\ call.reply.kind = "text" =>
              IF AllSpaces(call.reply.text) \/ contains(call.reply.text, CannotIdentify)
              THEN call.ret = <<>>
              ELSE call.ret # <<>> /\ IsTrimOf(call.ret, call.reply.text)
        /\ call.reply.kind # "text" => Marked(call.ret)

C6_Witness ==
    /\ RecognizeReturned
    /\ call.reply = TextReply(<<"a">> \o CannotIdentify)
    /\ call.ret = <<>>

\* What a generate request with the arguments key would do against the store c.
Request(c, key, reply) == cached_generate_recipe_from_ai(c, key[1], key[2], reply)

SharedKeys == {<<<<"a">>, preference>> : preference \in {<<>>, <<"p">>}}

\* C7, as claimed: a step of one session changes neither the session state
\* and widget values of another session nor what a generate request of
\* another session would do: whether it asks the provider, and what it
\* returns.
C7_SessionsShareNothing ==
    [][\A t \in Sessions \ {event'.session} :
          /\ session_state'[t] = session_state[t]
          /\ widgets'[t] = widgets[t]
          /\ \A key \in SharedKeys, reply \in SharedOutcomes.llm :
                /\ Request(cache', key, reply).requests = Request(cache, key, reply).requests
                /\ Request(cache', key, reply).ret = Request(cache, key, reply).ret]_vars

\* C8: a step in which the recognition is invoked leaves the ingredient text
\* equal to the result when the result is non-empty and not a failure string,
\* unchanged when it is a failure string, empty when it is empty; it leaves
\* the recipe output unchanged and ends in st.rerun().
C8_UploadEffect ==
    [][event'.recognized > 0 =>
          /\ session_state'[event'.session].ingredients_text =
                IF event'.result = <<>> THEN <<>>
                ELSE IF Marked(event'.result)
                THEN session_state[event'.session].ingredients_text
                ELSE event'.result
          /\ session_state'[event'.session].recipe_output =
                session_state[event'.session].recipe_output
          /\ event'.forced_rerun]_vars

C8_Witness ==
    /\ event.op = "upload"
    /\ event.recognized = 1
    /\ Marked(event.result)
    /\ session_state["s1"].ingredients_text = <<"a">>
    /\ session_state["s1"].recipe_output = <<"R">>
    /\ event.forced_rerun

\* The latest handling in session s was cut short or its recognition failed.
CutShortOrFailed(s) ==
    /\ event.session = s
    /\ event.aborted \/ (event.recognized > 0 /\ Marked(event.result))

\* C9: the name of an uploaded file is recorded however the handling of the
\* upload ends, so that a step of the session after a handling that was cut
\* short or whose recognition failed, with the same file still uploaded, does
\* not invoke the recognition.
C9_NameWrittenFirst ==
    [][\A s \in Sessions :
          /\ (event'.session = s /\ widgets'[s].uploaded_file # None)
                => session_state'[s].last_upload_name = widgets'[s].uploaded_file
          /\ ( /\ CutShortOrFailed(s)
               /\ event'.session = s
               /\ widgets[s].uploaded_file # None
               /\ widgets'[s].uploaded_file = widgets[s].uploaded_file )
                => event'.recognized = 0]_vars

C9_Witness ==
    /\ event.op = "rerender"
    /\ event.recognized = 0
    /\ ~event.aborted
    /\ widgets["s1"].uploaded_file = "A.jpg"
    /\ session_state["s1"].last_upload_name = "A.jpg"
    /\ recognition_calls["s1"]["A.jpg"] = 0

KeyAfter(s) == <<session_state'[s].ingredients_text, widgets'[s].preference_text>>

\* C10: when the request of a generate call fails, the failure string is
\* stored under the call's pair, and a later generate request with a pair
\* whose stored value is a failure string returns that string without a
\* request and leaves the store as it is.
C10_FailuresAreCached ==
    [][event'.generated =>
          /\ (event'.outbound > 0 /\ Marked(session_state'[event'.session].recipe_output))
                => /\ KeyAfter(event'.session) \in DOMAIN cache'
                   /\ cache'[KeyAfter(event'.session)] =
                         session_state'[event'.session].recipe_output
          /\ (KeyAfter(event'.session) \in DOMAIN cache /\ Marked(cache[KeyAfter(event'.session)]))
                => /\ event'.outbound = 0
                   /\ session_state'[event'.session].recipe_output =
                         cache[KeyAfter(event'.session)]
                   /\ cache' = cache]_vars

C10_Witness ==
    /\ event.generated
    /\ event.outbound = 0
    /\ Actor = "s2"
    /\ Marked(session_state["s2"].recipe_output)
    /\ CallsFor(KeyOf("s2")) = 1
    /\ cache[KeyOf("s2")] = session_state["s2"].recipe_output

====
